---- MODULE Spec2Model ----
(***************************************************************************)
(* Model of homework.py: a bot that polls the homework-review API, formats *)
(* the status of the first homework of the answer and relays it (or the    *)
(* text of a failure) to a Telegram chat, once per RETRY_PERIOD.           *)
(*                                                                         *)
(* Conventions of the model                                                *)
(*   - Python's None / JSON null and an int share one shape: an optional   *)
(*     int is a sequence of length <= 1 (None is << >>, the int n is <<n>>)*)
(*   - a dict is a function whose DOMAIN is its key set; a JSON body is a   *)
(*     record [type, items] so that a dict and a list are told apart       *)
(*   - texts are strings built with \o as the f-strings build them; the    *)
(*     Cyrillic literals of the source are transliterated to ASCII         *)
(***************************************************************************)
EXTENDS Integers, Sequences, FiniteSets, TLC

VARIABLES
    env,                \* PRACTICUM_TOKEN, TELEGRAM_TOKEN, TELEGRAM_CHAT_ID: set or not
    pc,                 \* position of main
    current_timestamp,  \* main's poll cursor
    prev_message,       \* main's dedup state
    response,           \* main's local: the body get_api_answer returned
    homeworks,          \* main's local: what check_response returned
    message,            \* main's local: the text formatted in this iteration
    error,              \* the exception in flight, NoError when none
    caught,             \* the exception an except clause of this iteration caught
    propagating,        \* an exception left the except block and waits for finally
    log,                \* levels of the log records written in this iteration
    from_date,          \* the from_date parameter of this iteration's request
    prev0,              \* prev_message when this iteration's request was issued
    cursor0,            \* the cursor when this iteration's request was issued
    fetched,            \* a request has been issued
    fetchOK,            \* this iteration's get_api_answer returned a body
    lastCall,           \* the last send_message call: <<[text, ok]>>, << >> when none
    lastDelivered,      \* the last text the chat received: <<text>>, << >> when none
    lastStatus,         \* the text of the last status notification call, << >> when none
    status0,            \* lastStatus when this iteration's request was issued
    reply,               \* what requests.get did in this iteration
    sends,              \* send_message calls of this iteration
    slept               \* sleeps since the last request

vars == <<env, pc, current_timestamp, prev_message, response, homeworks, message,
          error, caught, propagating, log, from_date, prev0, cursor0, fetched, fetchOK,
          lastCall, lastDelivered, lastStatus, status0, reply, sends, slept>>

----------------------------------------------------------------------------
(* Bounds of the model *)

MaxClock == 2       \* int(time.time()) reads a value of 1..MaxClock
MaxTime == 2        \* the server's current_date is null or one of 0..MaxTime
MaxHomeworks == 2   \* longest homeworks list of an answer

----------------------------------------------------------------------------
(* Program constants *)

RETRY_PERIOD == 600

TokenNames == {"PRACTICUM_TOKEN", "TELEGRAM_TOKEN", "TELEGRAM_CHAT_ID"}

ENDPOINT == "https://practicum.yandex.ru/api/user_api/homework_statuses/"

\* a verdict table that lacks a status
VerdictsWithoutRejected ==
    [approved  |-> "Rabota proverena: revyueru vsyo ponravilos. Ura!",
     reviewing |-> "Rabota vzyata na proverku revyuerom."]

HOMEWORK_VERDICTS ==
    [approved  |-> "Rabota proverena: revyueru vsyo ponravilos. Ura!",
     reviewing |-> "Rabota vzyata na proverku revyuerom.",
     rejected  |-> "Rabota proverena: u revyuera est zamechaniya."]

HTTP_OK == 200

----------------------------------------------------------------------------
(* Python values *)

None == << >>
Some(n) == <<n>>

\* bool(x) of an optional int: None and 0 are falsy
Truthy(ts) == ts # None /\ ts[1] # 0

Digit(d) ==
    CASE d = 0 -> "0" [] d = 1 -> "1" [] d = 2 -> "2" [] d = 3 -> "3" [] d = 4 -> "4"
      [] d = 5 -> "5" [] d = 6 -> "6" [] d = 7 -> "7" [] d = 8 -> "8" [] d = 9 -> "9"

RECURSIVE IntToStr(_)
IntToStr(n) == IF n < 10 THEN Digit(n) ELSE IntToStr(n \div 10) \o Digit(n % 10)

\* str() of an optional int
StrInt(ts) == IF ts = None THEN "None" ELSE IntToStr(ts[1])

\* repr() of a homework record (keys in the order homework_name, status)
ReprHomework(hw) ==
    LET n == IF "homework_name" \in DOMAIN hw
             THEN "'homework_name': '" \o hw["homework_name"] \o "'" ELSE ""
        s == IF "status" \in DOMAIN hw
             THEN "'status': '" \o hw["status"] \o "'" ELSE ""
        sep == IF DOMAIN hw = {"homework_name", "status"} THEN ", " ELSE ""
    IN  "{" \o n \o sep \o s \o "}"

RECURSIVE ReprItems(_)
ReprItems(hws) ==
    IF hws = << >> THEN ""
    ELSE IF Len(hws) = 1 THEN ReprHomework(hws[1])
    ELSE ReprHomework(hws[1]) \o ", " \o ReprItems(Tail(hws))

\* repr() of a JSON value that is a list of homework records or a string
ReprValue(v) ==
    IF v.type = "list" THEN "[" \o ReprItems(v.items) \o "]"
    ELSE "'" \o v.items \o "'"

\* repr() of a parsed body (dict keys in the order homeworks, current_date)
ReprBody(body) ==
    IF body.type = "list" THEN "[" \o ReprItems(body.items) \o "]"
    ELSE IF body.type = "str" THEN "'" \o body.items \o "'"
    ELSE LET d == body.items
             h == IF "homeworks" \in DOMAIN d
                  THEN "'homeworks': " \o ReprValue(d["homeworks"]) ELSE ""
             c == IF "current_date" \in DOMAIN d
                  THEN "'current_date': " \o StrInt(d["current_date"]) ELSE ""
             sep == IF DOMAIN d = {"homeworks", "current_date"} THEN ", " ELSE ""
         IN  "{" \o h \o sep \o c \o "}"

\* An exception: its class, its argument, and whether the argument holds an
\* apostrophe (repr() of a str picks its quote by that)
Exc(kind, msg, apos) == [kind |-> kind, msg |-> msg, apos |-> apos]

NoError == Exc("none", "", FALSE)

\* str(error): KeyError shows the repr of its argument, the others the argument
StrError(e) ==
    IF e.kind = "KeyError"
    THEN IF e.apos THEN "\"" \o e.msg \o "\"" ELSE "'" \o e.msg \o "'"
    ELSE e.msg

----------------------------------------------------------------------------
(* What the environment can supply *)

TelegramOutcomes == {"ok", "TelegramError"}

ClockValues == 1..MaxClock

CurrentDates == {None} \cup {Some(t) : t \in 0..MaxTime}

\* a homework record with the keys that are given (None: the key is absent)
MkHomework(name, status) ==
    [k \in (IF name = None THEN {} ELSE {"homework_name"})
           \cup (IF status = None THEN {} ELSE {"status"})
       |-> IF k = "homework_name" THEN name[1] ELSE status[1]]

StatusValues == {"approved", "reviewing", "rejected", "pending"}

FirstRecords ==
    {MkHomework(n, s) : n \in {None, Some("hw1")},
                        s \in {None} \cup {Some(x) : x \in StatusValues}}

LaterRecords == {MkHomework(Some("hw0"), Some("rejected")), MkHomework(None, None)}

RECURSIVE SeqsUpTo(_, _)
SeqsUpTo(S, n) ==
    IF n <= 0 THEN {<< >>}
    ELSE LET shorter == SeqsUpTo(S, n - 1)
         IN  shorter \cup {<<x>> \o t : x \in S, t \in shorter}

HomeworkLists ==
    {<< >>} \cup {<<r>> \o t : r \in FirstRecords,
                              t \in SeqsUpTo(LaterRecords, MaxHomeworks - 1)}

JsonList(items) == [type |-> "list", items |-> items]
JsonStr(s) == [type |-> "str", items |-> s]
JsonDict(d) == [type |-> "dict", items |-> d]

\* a dict body with the keys that are given (<< >>: the key is absent,
\* <<v>>: the key holds v)
MkBody(hws, date) ==
    JsonDict([k \in (IF hws = << >> THEN {} ELSE {"homeworks"})
                    \cup (IF date = << >> THEN {} ELSE {"current_date"})
                |-> IF k = "homeworks" THEN hws[1] ELSE date[1]])

HomeworksValues == {JsonStr("none")} \cup {JsonList(l) : l \in HomeworkLists}

Bodies ==
    {JsonList(<< >>)}
    \cup {MkBody(h, d) : h \in {<< >>} \cup {<<v>> : v \in HomeworksValues},
                         d \in {<< >>} \cup {<<c>> : c \in CurrentDates}}

NoResponse == JsonStr("")

StatusCodes == {HTTP_OK, 500}

\* no request in this iteration yet
NoHttp == [kind |-> "none", status_code |-> 0, body |-> NoResponse]

\* what requests.get does: raise a RequestException, or answer with a status
\* code and a body (the body of an answer that is not a 200 is never read)
HttpOutcomes ==
    {[kind |-> "RequestException", status_code |-> 0, body |-> NoResponse]}
    \cup {[kind |-> "response", status_code |-> c, body |-> NoResponse] :
             c \in StatusCodes \ {HTTP_OK}}
    \cup {[kind |-> "response", status_code |-> HTTP_OK, body |-> b] : b \in Bodies}

----------------------------------------------------------------------------
(* The functions of homework.py *)

\* send_message(bot, message), given what bot.send_message does
send_message(text, outcome) ==
    IF outcome = "ok"
    THEN [raised |-> FALSE, value |-> None, log |-> <<"DEBUG", "DEBUG">>]
    ELSE [raised |-> TRUE,
          error |-> Exc("SendMessageError", "Sboy pri otpravke soobshcheniya v Telegram",
                        FALSE),
          log |-> <<"DEBUG", "ERROR">>]

\* the request timestamp without the fallback to the clock
RequestTimestampNoFallback(cursor, now) == cursor

\* timestamp = current_timestamp or int(time.time())
RequestTimestamp(cursor, now) == IF Truthy(cursor) THEN cursor ELSE Some(now)

ReprParams(timestamp) == "{'from_date': " \o StrInt(timestamp) \o "}"

\* get_api_answer without the test of the status code
get_api_answer_any_status(cursor, now, http) ==
    LET timestamp == RequestTimestamp(cursor, now)
        params == ReprParams(timestamp)
    IN  IF http.kind = "RequestException"
        THEN [raised |-> TRUE,
              error |-> Exc("APIAnswerError",
                            "Oshibka pri zaprose k endpointu: " \o ENDPOINT
                                \o ",parametry zaprosa: " \o params, TRUE),
              log |-> <<"ERROR">>]
        ELSE [raised |-> FALSE, value |-> http.body, log |-> << >>]

\* get_api_answer(current_timestamp), given the clock and what requests.get does
get_api_answer(cursor, now, http) ==
    LET timestamp == RequestTimestamp(cursor, now)
        params == ReprParams(timestamp)
    IN  IF http.kind = "RequestException"
        THEN [raised |-> TRUE,
              error |-> Exc("APIAnswerError",
                            "Oshibka pri zaprose k endpointu: " \o ENDPOINT
                                \o ",parametry zaprosa: " \o params, TRUE),
              log |-> <<"ERROR">>]
        ELSE IF http.status_code # HTTP_OK
        THEN [raised |-> TRUE,
              error |-> Exc("APIAnswerError",
                            "Otvet ot endpointa otlichnyy ot 200" \o "Endpoint: "
                                \o ENDPOINT \o ", Parametry: " \o params \o ","
                                \o "Otvet: " \o IntToStr(http.status_code), TRUE),
              log |-> <<"ERROR">>]
        ELSE [raised |-> FALSE, value |-> http.body, log |-> << >>]

\* check_response raising TypeError for a missing key as well
check_response_one_kind(resp) ==
    IF resp.type # "dict"
    THEN [raised |-> TRUE,
          error |-> Exc("TypeError", "Tip otveta API - ne slovar: " \o ReprBody(resp),
                        FALSE),
          log |-> <<"ERROR">>]
    ELSE IF "homeworks" \notin DOMAIN resp.items
    THEN [raised |-> TRUE,
          error |-> Exc("TypeError",
                        "Otsutstvuet klyuch homeworks v otvete API: " \o ReprBody(resp),
                        DOMAIN resp.items # {}),
          log |-> <<"ERROR">>]
    ELSE IF resp.items["homeworks"].type # "list"
    THEN [raised |-> TRUE,
          error |-> Exc("TypeError", "Tip otveta API - ne spisok: " \o ReprBody(resp),
                        TRUE),
          log |-> <<"ERROR">>]
    ELSE LET hws == resp.items["homeworks"].items
         IN  [raised |-> FALSE, value |-> hws,
              log |-> IF hws = << >> THEN <<"DEBUG">> ELSE << >>]

\* check_response(response)
check_response(resp) ==
    IF resp.type # "dict"
    THEN [raised |-> TRUE,
          error |-> Exc("TypeError", "Tip otveta API - ne slovar: " \o ReprBody(resp),
                        FALSE),
          log |-> <<"ERROR">>]
    ELSE IF "homeworks" \notin DOMAIN resp.items
    THEN [raised |-> TRUE,
          error |-> Exc("KeyError",
                        "Otsutstvuet klyuch homeworks v otvete API: " \o ReprBody(resp),
                        DOMAIN resp.items # {}),
          log |-> <<"ERROR">>]
    ELSE IF resp.items["homeworks"].type # "list"
    THEN [raised |-> TRUE,
          error |-> Exc("TypeError", "Tip otveta API - ne spisok: " \o ReprBody(resp),
                        TRUE),
          log |-> <<"ERROR">>]
    ELSE LET hws == resp.items["homeworks"].items
         IN  [raised |-> FALSE, value |-> hws,
              log |-> IF hws = << >> THEN <<"DEBUG">> ELSE << >>]

\* the test the message of the error speaks of: either key is missing
KeysMissingEither(homework) ==
    "homework_name" \notin DOMAIN homework \/ "status" \notin DOMAIN homework

\* ('homework_name' or 'status') evaluates to 'homework_name', so the test
\* is 'homework_name' not in homework
KeysMissing(homework) == "homework_name" \notin DOMAIN homework

\* parse_status(homework)
parse_status(homework) ==
    IF KeysMissing(homework)
    THEN [raised |-> TRUE,
          error |-> Exc("KeyError",
                        "Otsutstvu neobkhodimye klyuchi \"homework_name\", \"status\"",
                        FALSE),
          log |-> <<"ERROR">>]
    ELSE IF "status" \notin DOMAIN homework
    THEN [raised |-> TRUE, error |-> Exc("KeyError", "status", FALSE), log |-> << >>]
    ELSE IF homework["status"] \notin DOMAIN HOMEWORK_VERDICTS
    THEN [raised |-> TRUE,
          error |-> Exc("KeyError",
                        "Nedokumentirovannyy status domashney raboty obnaruzhen"
                            \o " v otvete API", FALSE),
          log |-> <<"ERROR">>]
    ELSE [raised |-> FALSE,
          value |-> "Izmenilsya status proverki raboty \""
                        \o homework["homework_name"] \o "\". "
                        \o HOMEWORK_VERDICTS[homework["status"]],
          log |-> << >>]

\* a token check that forgets TELEGRAM_CHAT_ID
check_tokens_without_chat(e) == {n \in TokenNames \ {"TELEGRAM_CHAT_ID"} : ~e[n]} = {}

\* check_tokens()
check_tokens(e) == {n \in TokenNames : ~e[n]} = {}

\* response.get('current_date'): no default
CursorFromNoDefault(resp, cursor) ==
    IF "current_date" \in DOMAIN resp.items THEN resp.items["current_date"] ELSE None

\* response.get('current_date', current_timestamp)
CursorFrom(resp, cursor) ==
    IF "current_date" \in DOMAIN resp.items THEN resp.items["current_date"] ELSE cursor

\* message = f'Sboy v rabote programmy: {error}'
ErrorMessage(e) == "Sboy v rabote programmy: " \o StrError(e)

\* the last record of the list in place of the first
LastHomework(hws) == hws[Len(hws)]

\* the record main formats: homeworks[0]
FirstHomework(hws) == hws[1]

\* a dedup test that lets every message through
AlwaysSend(text, prev) == TRUE

\* the dedup tests of main: message != prev_message
ShouldSend(text, prev) == text # prev

\* a loop whose sleep is no finally clause: an exception that leaves the
\* except block ends main at once
AfterHandlersNoFinally(leaving) == IF leaving THEN "raised" ELSE "sleep"

\* where main goes when its try block and handlers are over: the finally
\* clause, whether or not an exception is leaving the except block
AfterHandlers(leaving) == "sleep"

\* a dedup state that takes the text only once it is delivered
PrevAfterDelivery(prev, text, ok) == IF ok THEN text ELSE prev

\* prev_message after the two lines `prev_message = message` and
\* `send_message(bot, message)`: the assignment comes first, so the outcome
\* of the send does not matter
PrevAfterSend(prev, text, ok) == text

\* an except block that keeps the text of a failure out of the dedup state
PrevKeptOnError(prev, text) == prev

\* prev_message after `prev_message = message` of the except block: the
\* text of the failure takes the slot of the status texts
PrevAfterError(prev, text) == text

\* except clauses in the other order: except Exception comes first and
\* takes every exception
NoneToFirstClause(e) == FALSE

\* the exception goes to the first except clause, except SendMessageError
ToFirstClause(e) == e.kind = "SendMessageError"

\* a finally clause that swallows the exception that was leaving
AfterSleepSwallow(leaving) == "fetch"

\* where main goes when the finally clause is over: on with the exception
\* that was leaving the except block, or to the next iteration
AfterSleep(leaving) == IF leaving THEN "raised" ELSE "fetch"

----------------------------------------------------------------------------
(* main *)

Init ==
    /\ env \in [TokenNames -> BOOLEAN]
    /\ pc = "start"
    /\ current_timestamp = None
    /\ prev_message = ""
    /\ response = NoResponse
    /\ homeworks = << >>
    /\ message = ""
    /\ error = NoError
    /\ caught = NoError
    /\ propagating = FALSE
    /\ log = << >>
    /\ from_date = None
    /\ prev0 = ""
    /\ cursor0 = None
    /\ fetched = FALSE
    /\ fetchOK = FALSE
    /\ lastCall = << >>
    /\ lastDelivered = << >>
    /\ lastStatus = << >>
    /\ status0 = << >>
    /\ reply = NoHttp
    /\ sends = 0
    /\ slept = 0

\* the record of a send_message call and of what the chat received
Called(text, ok) ==
    /\ lastCall' = <<[text |-> text, ok |-> ok]>>
    /\ lastDelivered' = IF ok THEN <<text>> ELSE lastDelivered
    /\ sends' = sends + 1

\* main: a token is missing, sys.exit
MainExit ==
    /\ pc = "start"
    /\ ~check_tokens(env)
    /\ pc' = "exited"
    /\ log' = log \o <<"CRITICAL">>
    /\ UNCHANGED <<env, current_timestamp, prev_message, response, homeworks, message,
                   error, caught, propagating, from_date, prev0, status0, reply, cursor0, fetched,
                   fetchOK, lastCall, lastStatus, lastDelivered, sends, slept>>

\* main: the tokens are there, the cursor and the dedup state are initialised
MainStart ==
    /\ pc = "start"
    /\ check_tokens(env)
    /\ \E now \in ClockValues : current_timestamp' = Some(now)
    /\ prev_message' = ""
    /\ pc' = "fetch"
    /\ UNCHANGED <<env, response, homeworks, message, error, caught, propagating, log,
                   from_date, prev0, status0, reply, cursor0, fetched, fetchOK, lastCall, lastStatus,
                   lastDelivered, sends, slept>>

\* response = get_api_answer(current_timestamp)
Fetch ==
    /\ pc = "fetch"
    /\ \E now \in ClockValues, h \in HttpOutcomes :
          LET r == get_api_answer(current_timestamp, now, h)
          IN  /\ reply' = h
              /\ from_date' = RequestTimestamp(current_timestamp, now)
              /\ log' = log \o r.log
              /\ fetchOK' = ~r.raised
              /\ response' = IF r.raised THEN NoResponse ELSE r.value
              /\ error' = IF r.raised THEN r.error ELSE NoError
              /\ pc' = IF r.raised THEN "except" ELSE "check"
    /\ prev0' = prev_message
    /\ status0' = lastStatus
    /\ cursor0' = current_timestamp
    /\ fetched' = TRUE
    /\ slept' = 0
    /\ UNCHANGED <<env, current_timestamp, prev_message, homeworks, message, caught,
                   propagating, lastCall, lastStatus, lastDelivered, sends>>

\* homeworks = check_response(response)
Check ==
    /\ pc = "check"
    /\ LET r == check_response(response)
       IN  /\ log' = log \o r.log
           /\ homeworks' = IF r.raised THEN homeworks ELSE r.value
           /\ error' = IF r.raised THEN r.error ELSE NoError
           /\ pc' = IF r.raised THEN "except" ELSE "cursor"
    /\ UNCHANGED <<env, current_timestamp, prev_message, response, message, caught,
                   propagating, from_date, prev0, status0, reply, cursor0, fetched, fetchOK,
                   lastCall, lastStatus, lastDelivered, sends, slept>>

\* current_timestamp = response.get('current_date', current_timestamp)
\* if homeworks:
UpdateCursor ==
    /\ pc = "cursor"
    /\ current_timestamp' = CursorFrom(response, current_timestamp)
    /\ pc' = IF homeworks # << >> THEN "parse" ELSE AfterHandlers(FALSE)
    /\ UNCHANGED <<env, prev_message, response, homeworks, message, error, caught,
                   propagating, log, from_date, prev0, status0, reply, cursor0, fetched, fetchOK,
                   lastCall, lastStatus, lastDelivered, sends, slept>>

\* message = parse_status(homeworks[0])
\* if message != prev_message:
Parse ==
    /\ pc = "parse"
    /\ LET r == parse_status(FirstHomework(homeworks))
       IN  /\ log' = log \o r.log
           /\ message' = IF r.raised THEN message ELSE r.value
           /\ error' = IF r.raised THEN r.error ELSE NoError
           /\ pc' = IF r.raised THEN "except"
                    ELSE IF ShouldSend(r.value, prev_message) THEN "send"
                    ELSE AfterHandlers(FALSE)
    /\ UNCHANGED <<env, current_timestamp, prev_message, response, homeworks, caught,
                   propagating, from_date, prev0, status0, reply, cursor0, fetched, fetchOK,
                   lastCall, lastStatus, lastDelivered, sends, slept>>

\* prev_message = message
\* send_message(bot, message)
SendStatus ==
    /\ pc = "send"
    /\ lastStatus' = <<message>>
    /\ \E outcome \in TelegramOutcomes :
          LET r == send_message(message, outcome)
          IN  /\ prev_message' = PrevAfterSend(prev_message, message, ~r.raised)
              /\ Called(message, ~r.raised)
              /\ log' = log \o r.log
              /\ error' = IF r.raised THEN r.error ELSE NoError
              /\ pc' = IF r.raised THEN "except" ELSE AfterHandlers(FALSE)
    /\ UNCHANGED <<env, current_timestamp, response, homeworks, message, caught,
                   propagating, from_date, prev0, status0, reply, cursor0, fetched, fetchOK, slept>>

\* except SendMessageError: logging.error(...)
HandleSendMessageError ==
    /\ pc = "except"
    /\ ToFirstClause(error)
    /\ caught' = error
    /\ error' = NoError
    /\ log' = log \o <<"ERROR">>
    /\ pc' = AfterHandlers(FALSE)
    /\ UNCHANGED <<env, current_timestamp, prev_message, response, homeworks, message,
                   propagating, from_date, prev0, status0, reply, cursor0, fetched, fetchOK,
                   lastCall, lastStatus, lastDelivered, sends, slept>>

\* except Exception as error: the message is built and compared; when it is
\* new, prev_message takes it and it is logged
HandleException ==
    /\ pc = "except"
    /\ ~ToFirstClause(error)
    /\ caught' = error
    /\ error' = NoError
    /\ message' = ErrorMessage(error)
    /\ IF ShouldSend(ErrorMessage(error), prev_message)
       THEN /\ prev_message' = PrevAfterError(prev_message, ErrorMessage(error))
            /\ log' = log \o <<"ERROR">>
            /\ pc' = "send_error"
       ELSE /\ UNCHANGED <<prev_message, log>>
            /\ pc' = AfterHandlers(FALSE)
    /\ UNCHANGED <<env, current_timestamp, response, homeworks, propagating, from_date,
                   prev0, status0, reply, cursor0, fetched, fetchOK, lastCall, lastStatus, lastDelivered, sends,
                   slept>>

\* send_message(bot, message) of the except block: a SendMessageError raised
\* here is in no try block and leaves main once the finally clause has run
SendError ==
    /\ pc = "send_error"
    /\ \E outcome \in TelegramOutcomes :
          LET r == send_message(message, outcome)
          IN  /\ Called(message, ~r.raised)
              /\ log' = log \o r.log
              /\ error' = IF r.raised THEN r.error ELSE NoError
              /\ propagating' = r.raised
              /\ pc' = AfterHandlers(r.raised)
    /\ UNCHANGED <<env, current_timestamp, prev_message, response, homeworks, message,
                   caught, from_date, prev0, status0, reply, cursor0, fetched, fetchOK,
                   lastStatus, slept>>

\* finally: time.sleep(RETRY_PERIOD); then the next iteration, or the
\* exception that was leaving goes on and ends main. The locals of the
\* iteration are dead from here on and are cleared.
Sleep ==
    /\ pc = "sleep"
    /\ slept' = slept + RETRY_PERIOD
    /\ pc' = AfterSleep(propagating)
    /\ response' = NoResponse
    /\ homeworks' = << >>
    /\ message' = ""
    /\ caught' = NoError
    /\ log' = << >>
    /\ sends' = 0
    /\ fetchOK' = FALSE
    /\ from_date' = None
    /\ prev0' = ""
    /\ status0' = << >>
    /\ reply' = NoHttp
    /\ cursor0' = None
    /\ UNCHANGED <<env, current_timestamp, prev_message, error, propagating, fetched,
                   lastCall, lastStatus, lastDelivered>>

Next ==
    \/ MainExit
    \/ MainStart
    \/ Fetch
    \/ Check
    \/ UpdateCursor
    \/ Parse
    \/ SendStatus
    \/ HandleSendMessageError
    \/ HandleException
    \/ SendError
    \/ Sleep

Spec == Init /\ [][Next]_vars

----------------------------------------------------------------------------
(* Properties of the poll loop *)

\* a step that calls send_message
SendStep == sends' > sends

\* the iteration is over: the try block and the handlers have run, the
\* finally clause has not yet slept
EndOfIteration == pc = "sleep"

\* C1: two consecutive send_message calls of main, delivered or not, never
\* carry the same text; a cycle that formats the text last handed to
\* send_message calls it zero times.
C1_NoTwoCallsWithSameText ==
    [][(SendStep /\ lastCall # << >>) => lastCall'[1].text # lastCall[1].text]_vars

\* an iteration formatted the text of the last call and sent nothing
C1_Witness ==
    /\ EndOfIteration
    /\ message # ""
    /\ lastCall # << >>
    /\ lastCall[1].text = message
    /\ sends = 0

\* C2: in the sequence of texts the chat received, no two adjacent texts are
\* equal, also when a send of another text failed in between.
C2_NoTwoDeliveriesOfSameText ==
    [][(SendStep /\ lastCall'[1].ok /\ lastDelivered # << >>)
          => lastDelivered'[1] # lastDelivered[1]]_vars

\* C3: at the end of every iteration prev_message is the empty string when
\* nothing was delivered yet, else the text of the last delivered message.
C3_PrevIsLastDelivered ==
    EndOfIteration =>
        prev_message = (IF lastDelivered = << >> THEN "" ELSE lastDelivered[1])

\* C4: once check_tokens has passed, no error ends the process: main is never
\* left.
C4_LoopNeverEnds == check_tokens(env) => pc \notin {"exited", "raised"}

\* C5: a SendMessageError of an iteration is caught by the except clause of
\* the loop, which only logs it: the iteration then made one call, nothing
\* is left in flight and the loop goes on.
C5_SendMessageErrorCaught ==
    (EndOfIteration /\ sends > 0 /\ ~lastCall[1].ok) =>
        /\ caught.kind = "SendMessageError"
        /\ error = NoError
        /\ ~propagating
        /\ sends = 1

\* the body of this iteration is a dict with the key current_date
HasCurrentDate == response.type = "dict" /\ "current_date" \in DOMAIN response.items

\* the validator accepts the body of this iteration
Accepted ==
    /\ response.type = "dict"
    /\ "homeworks" \in DOMAIN response.items
    /\ response.items["homeworks"].type = "list"

\* C6 as stated: the cursor never decreases, every change of it sets it to a
\* current_date the server supplied, and the from_date of a request is the
\* cursor, never a fresh reading of the client clock.
C6_CursorOnlyForwardNeverClock ==
    /\ [](pc \in {"check", "cursor", "parse", "send", "except", "send_error", "sleep"}
            => from_date = cursor0)
    /\ [][pc # "start" =>
            /\ (current_timestamp # None /\ current_timestamp' # None
                   => current_timestamp'[1] >= current_timestamp[1])
            /\ (current_timestamp' # current_timestamp
                   => HasCurrentDate /\ current_timestamp' = response.items["current_date"])
         ]_vars

\* C6 as amended: every change of the cursor after the start sets it to the
\* current_date of a body the validator accepted (be it smaller, 0 or null);
\* the from_date of a request is the cursor when the cursor is a non-zero
\* int, and a reading of the client clock exactly when it is 0 or null.
C6_CursorFromServerClockWhenFalsy ==
    /\ [](pc \in {"check", "cursor", "parse", "send", "except", "send_error", "sleep"}
            => IF cursor0 # None /\ cursor0[1] # 0
               THEN from_date = cursor0
               ELSE from_date # None /\ from_date[1] \in ClockValues)
    /\ [][pc # "start" =>
            (current_timestamp' # current_timestamp
                => /\ Accepted
                   /\ HasCurrentDate
                   /\ current_timestamp' = response.items["current_date"])
         ]_vars

\* the server supplied 0, the next request read the clock, and the answer to
\* it set the cursor again
C6_Witness ==
    /\ EndOfIteration
    /\ cursor0 = Some(0)
    /\ from_date # cursor0
    /\ current_timestamp # None
    /\ current_timestamp[1] > 0

\* C7 as stated: after an iteration whose fetch returned a body the cursor is
\* the body's current_date when the key is there and the prior cursor when
\* not, also when the validator rejected the body; after a failed fetch it
\* is the prior cursor.
C7_CursorAfterEveryFetch ==
    EndOfIteration =>
        current_timestamp =
            (IF fetchOK /\ HasCurrentDate THEN response.items["current_date"]
             ELSE cursor0)

\* C7 as amended: the cursor is the body's current_date (the prior cursor
\* when the key is absent) after an iteration whose body the validator
\* accepted; it is the prior cursor after an iteration whose fetch failed or
\* whose body the validator rejected.
C7_CursorAfterAcceptedBody ==
    EndOfIteration =>
        current_timestamp =
            (IF fetchOK /\ Accepted /\ HasCurrentDate
             THEN response.items["current_date"]
             ELSE cursor0)

\* the validator rejected a body that carries a current_date other than the
\* cursor
C7_Witness ==
    /\ EndOfIteration
    /\ fetchOK
    /\ ~Accepted
    /\ HasCurrentDate
    /\ response.items["current_date"] # cursor0
    /\ current_timestamp = cursor0

\* C8: every iteration ends with one sleep of RETRY_PERIOD: nothing is slept
\* inside an iteration, a request other than the first is issued after
\* exactly one sleep, and so is main left by an exception.
C8_OneSleepPerIteration ==
    CASE pc \in {"start", "exited"} -> slept = 0
      [] pc = "fetch" -> slept = (IF fetched THEN RETRY_PERIOD ELSE 0)
      [] pc = "raised" -> slept = RETRY_PERIOD
      [] OTHER -> slept = 0

\* main was left by the SendMessageError of an error notification, after
\* the sleep of that iteration
C8_Witness ==
    /\ pc = "raised"
    /\ error.kind = "SendMessageError"
    /\ slept = RETRY_PERIOD

\* C9: an iteration that failed with an exception other than SendMessageError
\* builds the text of the failure and calls send_message once with it when
\* it differs from prev_message, and not at all when it equals it.
C9_FailureNotifiedOnce ==
    (EndOfIteration /\ caught.kind \notin {"none", "SendMessageError"}) =>
        /\ message = "Sboy v rabote programmy: " \o StrError(caught)
        /\ sends = (IF message # prev0 THEN 1 ELSE 0)
        /\ sends = 1 => lastCall[1].text = message
        /\ prev_message = message

\* the failure of the iteration before repeats: nothing is sent
C9_Witness ==
    /\ EndOfIteration
    /\ caught.kind = "APIAnswerError"
    /\ message = prev0
    /\ lastCall # << >>
    /\ lastCall[1].text = message
    /\ sends = 0

\* C10: with a token missing main exits before any request, send or sleep;
\* with the three tokens set main does not exit and enters the loop.
C10_TokensDecideStart ==
    /\ (\E n \in TokenNames : ~env[n]) =>
          /\ pc \in {"start", "exited"}
          /\ ~fetched
          /\ lastCall = << >>
          /\ slept = 0
    /\ (\A n \in TokenNames : env[n]) =>
          /\ pc # "exited"
          /\ pc = "start" => ENABLED MainStart

\* main has exited because only TELEGRAM_CHAT_ID is missing
C10_Witness ==
    /\ pc = "exited"
    /\ env["PRACTICUM_TOKEN"]
    /\ env["TELEGRAM_TOKEN"]
    /\ ~env["TELEGRAM_CHAT_ID"]

\* the text of a status notification for a record: the homework name in
\* double quotes and the verdict of its status (no text for a record
\* without a name or with a status that has no verdict)
ExpectedStatusText(hw) ==
    IF DOMAIN hw # {"homework_name", "status"} THEN "(no text)"
    ELSE LET head == "Izmenilsya status proverki raboty \"" \o hw["homework_name"] \o "\". "
         IN  CASE hw["status"] = "approved" ->
                    head \o "Rabota proverena: revyueru vsyo ponravilos. Ura!"
               [] hw["status"] = "reviewing" ->
                    head \o "Rabota vzyata na proverku revyuerom."
               [] hw["status"] = "rejected" ->
                    head \o "Rabota proverena: u revyuera est zamechaniya."
               [] OTHER -> "(no text)"

\* the homeworks list of the body of this iteration, once accepted
ReceivedHomeworks == response.items["homeworks"].items

\* C11: the steps keep the order fetch, validate, cursor update, format,
\* notify: a status notification is attempted only after the fetch returned
\* a body, the validator accepted it, the cursor was updated and the list is
\* not empty; its text is the formatting of the first record; with an empty
\* list nothing is sent and prev_message is unchanged.
C11_StatusFromFirstRecordInOrder ==
    /\ pc \in {"parse", "send"} =>
          /\ fetchOK
          /\ Accepted
          /\ homeworks = ReceivedHomeworks
          /\ homeworks # << >>
          /\ current_timestamp =
                (IF HasCurrentDate THEN response.items["current_date"] ELSE cursor0)
    /\ pc = "send" =>
          /\ message = ExpectedStatusText(ReceivedHomeworks[1])
          /\ sends = 0
    /\ (EndOfIteration /\ sends > 0 /\ caught.kind \in {"none", "SendMessageError"}) =>
          /\ fetchOK
          /\ Accepted
          /\ ReceivedHomeworks # << >>
          /\ lastCall[1].text = ExpectedStatusText(ReceivedHomeworks[1])
    /\ (EndOfIteration /\ fetchOK /\ Accepted /\ ReceivedHomeworks = << >>) =>
          /\ sends = 0
          /\ message = ""
          /\ prev_message = prev0

\* a status notification was sent for the first of two records that format
\* to different texts
C11_Witness ==
    /\ EndOfIteration
    /\ sends = 1
    /\ caught = NoError
    /\ Len(homeworks) = 2
    /\ homeworks[2] = MkHomework(Some("hw0"), Some("rejected"))
    /\ lastCall[1].text = ExpectedStatusText(homeworks[1])
    /\ lastCall[1].text # ExpectedStatusText(homeworks[2])

----------------------------------------------------------------------------
(* The functions on their own: one call of check_response, parse_status or *)
(* get_api_answer on an argument, the result left in the variables main    *)
(* keeps it in                                                             *)

CheckInputs ==
    Bodies
    \cup {JsonStr(s) : s \in {"", "homeworks"}}
    \cup {JsonList(l) : l \in HomeworkLists}

ParseInputs ==
    {MkHomework(n, s) :
        n \in {None, Some("hw1"), Some("hw2"), Some("")},
        s \in {None} \cup {Some(x) : x \in StatusValues \cup {"", "Approved"}}}

HttpInputs ==
    HttpOutcomes
    \cup {[kind |-> "response", status_code |-> c, body |-> b] :
             c \in {201, 204, 301, 404, 500},
             b \in {MkBody(<<JsonList(<< >>)>>, << >>), JsonList(<< >>)}}

CursorInputs == {None} \cup {Some(t) : t \in 0..MaxTime}

InitPure ==
    /\ env = [n \in TokenNames |-> TRUE]
    /\ prev_message = ""
    /\ message = ""
    /\ error = NoError
    /\ caught = NoError
    /\ propagating = FALSE
    /\ log = << >>
    /\ from_date = None
    /\ prev0 = ""
    /\ cursor0 = None
    /\ fetched = FALSE
    /\ fetchOK = FALSE
    /\ lastCall = << >>
    /\ lastDelivered = << >>
    /\ lastStatus = << >>
    /\ status0 = << >>
    /\ sends = 0
    /\ slept = 0
    /\ \/ /\ pc = "call_check_response"
          /\ response \in CheckInputs
          /\ homeworks = << >>
          /\ current_timestamp = None
          /\ reply = NoHttp
       \/ /\ pc = "call_parse_status"
          /\ homeworks \in {<<hw>> : hw \in ParseInputs}
          /\ response = NoResponse
          /\ current_timestamp = None
          /\ reply = NoHttp
       \/ /\ pc = "call_get_api_answer"
          /\ current_timestamp \in CursorInputs
          /\ reply \in HttpInputs
          /\ response = NoResponse
          /\ homeworks = << >>

\* homeworks = check_response(response)
CallCheckResponse ==
    /\ pc = "call_check_response"
    /\ LET r == check_response(response)
       IN  /\ log' = r.log
           /\ homeworks' = IF r.raised THEN homeworks ELSE r.value
           /\ error' = IF r.raised THEN r.error ELSE NoError
    /\ pc' = "ret_check_response"
    /\ UNCHANGED <<env, current_timestamp, prev_message, response, message, caught,
                   propagating, from_date, prev0, status0, reply, cursor0, fetched,
                   fetchOK, lastCall, lastStatus, lastDelivered, sends, slept>>

\* message = parse_status(homework)
CallParseStatus ==
    /\ pc = "call_parse_status"
    /\ LET r == parse_status(homeworks[1])
       IN  /\ log' = r.log
           /\ message' = IF r.raised THEN message ELSE r.value
           /\ error' = IF r.raised THEN r.error ELSE NoError
    /\ pc' = "ret_parse_status"
    /\ UNCHANGED <<env, current_timestamp, prev_message, response, homeworks, caught,
                   propagating, from_date, prev0, status0, reply, cursor0, fetched,
                   fetchOK, lastCall, lastStatus, lastDelivered, sends, slept>>

\* response = get_api_answer(current_timestamp), requests.get doing what
\* reply says
CallGetApiAnswer ==
    /\ pc = "call_get_api_answer"
    /\ \E now \in ClockValues :
          LET r == get_api_answer(current_timestamp, now, reply)
          IN  /\ log' = r.log
              /\ from_date' = RequestTimestamp(current_timestamp, now)
              /\ response' = IF r.raised THEN response ELSE r.value
              /\ error' = IF r.raised THEN r.error ELSE NoError
    /\ pc' = "ret_get_api_answer"
    /\ UNCHANGED <<env, current_timestamp, prev_message, homeworks, message, caught,
                   propagating, prev0, status0, reply, cursor0, fetched, fetchOK,
                   lastCall, lastStatus, lastDelivered, sends, slept>>

NextPure ==
    \/ CallCheckResponse
    \/ CallParseStatus
    \/ CallGetApiAnswer

SpecPure == InitPure /\ [][NextPure]_vars

\* C12: check_response raises a TypeError for a body that is no dict, a
\* KeyError for a dict without the key homeworks, a TypeError for a dict
\* whose homeworks is no list, and returns the list as it is otherwise, the
\* empty list included.
C12_CheckResponseContract ==
    pc = "ret_check_response" =>
        IF response.type # "dict"
        THEN error.kind = "TypeError" /\ homeworks = << >>
        ELSE IF "homeworks" \notin DOMAIN response.items
        THEN error.kind = "KeyError" /\ homeworks = << >>
        ELSE IF response.items["homeworks"].type # "list"
        THEN error.kind = "TypeError" /\ homeworks = << >>
        ELSE error = NoError /\ homeworks = response.items["homeworks"].items

\* check_response has returned the empty list of {'homeworks': []}
C12_Witness ==
    /\ pc = "ret_check_response"
    /\ response = MkBody(<<JsonList(<< >>)>>, << >>)
    /\ error = NoError
    /\ homeworks = << >>
    /\ log = <<"DEBUG">>

\* C13: for a record with both keys parse_status returns the notification
\* text with the verdict of the status when the status is approved,
\* reviewing or rejected, and raises a KeyError for any other status.
C13_ParseStatusContract ==
    (pc = "ret_parse_status" /\ DOMAIN homeworks[1] = {"homework_name", "status"}) =>
        IF homeworks[1]["status"] \in {"approved", "reviewing", "rejected"}
        THEN error = NoError /\ message = ExpectedStatusText(homeworks[1])
        ELSE error.kind = "KeyError" /\ message = ""

\* parse_status has returned the text for hw1, approved
C13_Witness ==
    /\ pc = "ret_parse_status"
    /\ homeworks = <<MkHomework(Some("hw1"), Some("approved"))>>
    /\ error = NoError
    /\ message = "Izmenilsya status proverki raboty \"hw1\". "
                    \o "Rabota proverena: revyueru vsyo ponravilos. Ura!"

\* C14: get_api_answer raises APIAnswerError, an error record logged, when
\* requests.get raises and when the status code is not 200; it returns the
\* parsed body only for a 200.
C14_GetApiAnswerContract ==
    pc = "ret_get_api_answer" =>
        IF reply.kind = "RequestException" \/ reply.status_code # 200
        THEN /\ error.kind = "APIAnswerError"
             /\ log = <<"ERROR">>
             /\ response = NoResponse
        ELSE /\ error = NoError
             /\ response = reply.body

\* get_api_answer has raised for a 404 that carried a well-formed body
C14_Witness ==
    /\ pc = "ret_get_api_answer"
    /\ reply.kind = "response"
    /\ reply.status_code = 404
    /\ reply.body = MkBody(<<JsonList(<< >>)>>, << >>)
    /\ error.kind = "APIAnswerError"
    /\ log = <<"ERROR">>

\* the argument of the KeyError the key test of parse_status raises
MissingKeysText == "Otsutstvu neobkhodimye klyuchi \"homework_name\", \"status\""

\* C15 as stated: the key test of parse_status is false for every record, so
\* parse_status never raises the error of that test.
C15_KeyTestNeverFails ==
    pc = "ret_parse_status" => error.msg # MissingKeysText

\* C15 as amended: the key test looks at homework_name alone: parse_status
\* raises the error of that test exactly for the records without
\* homework_name, whatever they hold for status, and a record with
\* homework_name and without status raises KeyError('status') instead.
C15_KeyTestLooksAtNameOnly ==
    pc = "ret_parse_status" =>
        /\ (error.kind = "KeyError" /\ error.msg = MissingKeysText)
              <=> "homework_name" \notin DOMAIN homeworks[1]
        /\ DOMAIN homeworks[1] = {"homework_name"} =>
              error.kind = "KeyError" /\ error.msg = "status"

\* a record with a status and no homework_name raised the error of the
\* key test
C15_Witness ==
    /\ pc = "ret_parse_status"
    /\ homeworks = <<MkHomework(None, Some("approved"))>>
    /\ error.kind = "KeyError"
    /\ error.msg = MissingKeysText

\* C16: a SendMessageError of the send of an error notification is handled
\* by no except clause: it is left in flight through the sleep of the
\* iteration and then leaves main, after which nothing is fetched or sent.
C16_FailedErrorNotificationEndsMain ==
    [][/\ (pc = "send_error" /\ SendStep /\ ~lastCall'[1].ok) =>
              /\ propagating'
              /\ error'.kind = "SendMessageError"
              /\ caught' = caught
              /\ pc' = "sleep"
       /\ (pc = "sleep" /\ propagating) =>
              /\ slept' = slept + RETRY_PERIOD
              /\ error' = error
              /\ pc' = "raised"
       /\ pc # "raised"
      ]_vars

\* main was left after the error notification of a failed fetch could not
\* be sent
C16_Witness ==
    /\ pc = "raised"
    /\ fetched
    /\ lastCall # << >>
    /\ ~lastCall[1].ok
    /\ prev_message = lastCall[1].text
    /\ lastDelivered = << >>

\* C17: prev_message takes the text of a status notification whether or not
\* its send succeeds, so after a failed send of a text an iteration that
\* formats the same text again goes to sleep without a call.
C17_FailedStatusNotRetried ==
    /\ []((lastCall # << >> /\ pc # "send_error") => prev_message = lastCall[1].text)
    /\ [][(pc = "parse" /\ lastCall # << >> /\ ~lastCall[1].ok
              /\ message' = lastCall[1].text)
            => (pc' = "sleep" /\ sends' = 0 /\ lastCall' = lastCall)]_vars

\* the send of a status text failed in an earlier iteration, this one has
\* formatted the same text and has sent nothing
C17_Witness ==
    /\ EndOfIteration
    /\ lastCall # << >>
    /\ ~lastCall[1].ok
    /\ lastStatus = <<message>>
    /\ message = lastCall[1].text
    /\ caught = NoError
    /\ sends = 0

\* the texts of the status notifications of the records main can format
StatusTexts == {ExpectedStatusText(hw) : hw \in FirstRecords}

\* C18: status and error texts share the one slot prev_message and a text
\* is compared with the text of the last send_message call only: a
\* formatted text goes to send_message exactly when it differs from that
\* text, so a status text sent before an error text is sent again when it
\* is formatted again, and likewise an error text after a status text.
C18_OnlyLastCallSuppresses ==
    [][/\ (pc = "parse" /\ pc' # "except") =>
              (pc' = "send" <=> (lastCall = << >> \/ message' # lastCall[1].text))
       /\ (pc = "except" /\ error.kind # "SendMessageError") =>
              (pc' = "send_error" <=> (lastCall = << >> \/ message' # lastCall[1].text))
       /\ (pc \in {"send", "send_error"}) =>
              (SendStep /\ lastCall'[1].text = message)
      ]_vars

\* a status text was sent, then an error text, and the iteration that
\* formatted the status text again has sent it a second time
C18_Witness ==
    /\ EndOfIteration
    /\ status0 = <<message>>
    /\ prev0 # ""
    /\ prev0 \notin StatusTexts
    /\ sends = 1
    /\ lastCall[1].text = message
    /\ lastCall[1].ok

\* C19: an iteration calls send_message at most once: the clause that
\* catches the SendMessageError of a status notification sends nothing, and
\* an error notification is sent only in an iteration that has sent no
\* status notification.
C19_AtMostOneCallPerIteration ==
    /\ sends <= 1
    /\ pc = "send_error" => sends = 0
    /\ caught.kind = "SendMessageError" =>
          /\ pc = "sleep"
          /\ sends = 1
          /\ ~lastCall[1].ok
          /\ lastStatus = <<lastCall[1].text>>

\* the send of a status notification failed, the error was caught and the
\* iteration is over with that one call
C19_Witness ==
    /\ EndOfIteration
    /\ caught.kind = "SendMessageError"
    /\ error = NoError
    /\ sends = 1
    /\ lastCall[1].text \in StatusTexts

====
